---- MODULE Spec2Model ----
(***************************************************************************)
(* The three chart components of Homework2/qkma (StackedBarChart,          *)
(* GenreDecadeHeatmap, SankeyChart): each loads the CSV once, reduces it   *)
(* to its own aggregate, tracks the size of its container and redraws its  *)
(* svg from scratch whenever the aggregate or the size changes.            *)
(*                                                                         *)
(* A JavaScript string is a sequence of tokens (characters or whole words),*)
(* so "" is << >> and splitting a string at a separator is an operation on *)
(* that sequence.  A JavaScript number is a record [nan, v].               *)
(***************************************************************************)
EXTENDS Integers, Sequences, FiniteSets

VARIABLES
    csv,        \* the CSV resource: [cols: the header's columns, rows: the records]
    fetch,      \* per chart: "inflight", "ok" (loadData ran to its end) or "failed"
    bars,       \* StackedBarChart: useState<StackedBar[]>([])
    data,       \* GenreDecadeHeatmap: useState<HeatmapData[]>([])
    nodeData,   \* SankeyChart: useState<MyNode[]>([])
    linkData,   \* SankeyChart: useState<MyLink[]>([])
    size,       \* per chart: useState({ width: 0, height: 0 })
    timer,      \* per debounced chart: the pending call of the debounced onResize
    dom,        \* per svg element: its child marks, in document order
    console,    \* the charts that called console.error
    unhandled,  \* the charts whose loadData promise rejected with nobody catching
    burst,      \* history: per chart, the resize notifications of the current window
    mounted     \* whether Layout, and with it the three charts, is mounted

vars == <<csv, fetch, bars, data, nodeData, linkData, size, timer, dom,
          console, unhandled, burst, mounted>>

----------------------------------------------------------------------------
(* Bounds of the model *)

MaxBarRows == 3
MaxHeatExtra == 2
MaxFlowExtra == 2
MaxBurst == 2

----------------------------------------------------------------------------
(* JavaScript values *)

Range(s) == {s[i] : i \in DOMAIN s}

Front(s) == SubSeq(s, 1, Len(s) - 1)

Last(s) == s[Len(s)]

RECURSIVE Flatten(_)
Flatten(ss) == IF ss = << >> THEN << >> ELSE Flatten(Front(ss)) \o Last(ss)

RECURSIVE SumSeq(_)
SumSeq(s) == IF s = << >> THEN 0 ELSE SumSeq(Front(s)) + Last(s)

\* the value of a field the row object does not have
Undefined == <<"<undefined>">>

Str(word) == <<word>>

Unknown == Str("Unknown")

\* a ?? b
Coalesce(a, b) == IF a = Undefined THEN b ELSE a

\* String(x), `${x}`
JsString(x) == IF x = Undefined THEN Str("undefined") ELSE x

NaN == [nan |-> TRUE, v |-> 0]

Num(n) == [nan |-> FALSE, v |-> n]

Columns == {"genre", "age_category", "publicationYear", "bestseller_status",
            "adapted_to_movie"}

\* await d3.csv(...): one object per record, with a property for each column of
\* the header (a string, "" when the record is short), and no property for a
\* column the header lacks
ParseCsv(file) ==
    [i \in DOMAIN file.rows |->
        [c \in Columns |-> IF c \in file.cols THEN file.rows[i][c] ELSE Undefined]]

\* the keys of an InternMap filled in the order of ks: each once, first come first
RECURSIVE KeysInOrder(_)
KeysInOrder(ks) ==
    IF ks = << >> THEN << >>
    ELSE LET prev == KeysInOrder(Front(ks))
         IN  IF Last(ks) \in Range(prev) THEN prev ELSE Append(prev, Last(ks))

GenreOf(d) == d.genre

AgeOf(d) == d.age_category

RowsWithGenre(rows, g) == SelectSeq(rows, LAMBDA d : GenreOf(d) = g)

RowsWithAge(rows, a) == SelectSeq(rows, LAMBDA d : AgeOf(d) = a)

GenreKeys(rows) == KeysInOrder([i \in DOMAIN rows |-> GenreOf(rows[i])])

AgeKeys(rows) == KeysInOrder([i \in DOMAIN rows |-> AgeOf(rows[i])])

\* v => v.length
CountOf(v) == Len(v)

----------------------------------------------------------------------------
(* StackedBarChart: the bar reducer *)

StackedBar(genre, age, count) ==
    [category |-> Coalesce(genre, Unknown), stack |-> Coalesce(age, Unknown),
     value |-> count]

\* a bar reducer that counts an age category over all rows, not over the genre's
BarsOfGenreAllRows(rows, genre) ==
    LET ages == AgeKeys(RowsWithGenre(rows, genre))
    IN  [j \in DOMAIN ages |-> StackedBar(genre, ages[j], CountOf(RowsWithAge(rows, ages[j])))]

\* for (const [age, count] of map) barsData.push(...)
BarsOfGenre(rows, genre) ==
    LET v == RowsWithGenre(rows, genre)
        ages == AgeKeys(v)
    IN  [j \in DOMAIN ages |-> StackedBar(genre, ages[j], CountOf(RowsWithAge(v, ages[j])))]

\* d3.rollup(rawData, v => v.length, d => d.genre, d => d.age_category), flattened
BarReducer(rawData) ==
    LET genres == GenreKeys(rawData)
    IN  Flatten([i \in DOMAIN genres |-> BarsOfGenre(rawData, genres[i])])

----------------------------------------------------------------------------
(* Top-N genres, shared by the heatmap and the flow reducer *)

HeatmapTopN == 20

SankeyTopN == 10

\* Array.from(d3.rollup(rawData, v => v.length, d => d.genre).entries())
GenreCounts(rawData) ==
    LET genres == GenreKeys(rawData)
    IN  [i \in DOMAIN genres |-> <<genres[i], CountOf(RowsWithGenre(rawData, genres[i]))>>]

\* the sort with its comparator the other way round: (a, b) => a[1] - b[1]
InsertAsc(sorted, e) ==
    LET k == Cardinality({i \in DOMAIN sorted : sorted[i][2] <= e[2]})
    IN  SubSeq(sorted, 1, k) \o <<e>> \o SubSeq(sorted, k + 1, Len(sorted))

\* where a stable descending sort puts e among the already sorted entries:
\* behind every entry whose count is not smaller
InsertDesc(sorted, e) ==
    LET k == Cardinality({i \in DOMAIN sorted : sorted[i][2] >= e[2]})
    IN  SubSeq(sorted, 1, k) \o <<e>> \o SubSeq(sorted, k + 1, Len(sorted))

\* .sort((a, b) => b[1] - a[1])
RECURSIVE SortDesc(_)
SortDesc(entries) ==
    IF entries = << >> THEN << >>
    ELSE InsertDesc(SortDesc(Front(entries)), Last(entries))

\* .slice(0, n)
Slice(s, n) == SubSeq(s, 1, IF Len(s) < n THEN Len(s) ELSE n)

\* .sort(...).slice(0, n).map(d => d[0])
TopGenres(rawData, n) ==
    LET top == Slice(SortDesc(GenreCounts(rawData)), n)
    IN  [i \in DOMAIN top |-> top[i][1]]

\* topGenres.includes(genre)
Includes(topGenres, genre) == genre \in Range(topGenres)

----------------------------------------------------------------------------
(* GenreDecadeHeatmap: the heatmap reducer *)

Other == Str("Other")

Digits == {"0", "1", "2", "3", "4", "5", "6", "7", "8", "9"}

DigitVal(c) ==
    CASE c = "0" -> 0 [] c = "1" -> 1 [] c = "2" -> 2 [] c = "3" -> 3 [] c = "4" -> 4
      [] c = "5" -> 5 [] c = "6" -> 6 [] c = "7" -> 7 [] c = "8" -> 8 [] c = "9" -> 9

RECURSIVE Decimal(_)
Decimal(s) == IF s = << >> THEN 0 ELSE 10 * Decimal(Front(s)) + DigitVal(Last(s))

IsDigits(s) == s # << >> /\ \A i \in DOMAIN s : s[i] \in Digits

\* +x : "" is 0, a decimal numeral is its value, anything else (undefined too) is NaN
ToNumber(x) ==
    IF x = Undefined THEN NaN
    ELSE IF x = << >> THEN Num(0)
    ELSE IF IsDigits(x) THEN Num(Decimal(x))
    ELSE IF x[1] = "-" /\ IsDigits(Tail(x)) THEN Num(0 - Decimal(Tail(x)))
    ELSE NaN

\* Math.floor(+d.publicationYear / 10) * 10
DecadeOf(d) ==
    LET year == ToNumber(d.publicationYear)
    IN  IF year.nan THEN NaN ELSE Num((year.v \div 10) * 10)

\* d => (topGenres.includes(d.genre) ? d.genre : 'Other')
BucketOf(topGenres, d) == IF Includes(topGenres, GenreOf(d)) THEN GenreOf(d) ELSE Other

HeatmapDatum(genre, decade, count) == [genre |-> genre, decade |-> decade, count |-> count]

\* decades.forEach(([decade, count]) => heatmapData.push(...))
CellsOfGenre(rawData, topGenres, genre) ==
    LET v == SelectSeq(rawData, LAMBDA d : BucketOf(topGenres, d) = genre)
        decades == KeysInOrder([i \in DOMAIN v |-> DecadeOf(v[i])])
    IN  [j \in DOMAIN decades |->
            HeatmapDatum(genre, decades[j],
                         CountOf(SelectSeq(v, LAMBDA d : DecadeOf(d) = decades[j])))]

\* d3.rollups(rawData, v => v.length, bucket, decade), flattened
HeatmapReducer(rawData) ==
    LET topGenres == TopGenres(rawData, HeatmapTopN)
        genres == KeysInOrder([i \in DOMAIN rawData |-> BucketOf(topGenres, rawData[i])])
    IN  Flatten([i \in DOMAIN genres |-> CellsOfGenre(rawData, topGenres, genres[i])])

----------------------------------------------------------------------------
(* SankeyChart: the flow reducer *)

Sep == "|||"

LowerOf(c) ==
    CASE c \in {"True", "TRUE"} -> "true"
      [] c \in {"False", "FALSE"} -> "false"
      [] OTHER -> c

\* .toLowerCase()
ToLowerCase(s) == [i \in DOMAIN s |-> LowerOf(s[i])]

\* String(x).toLowerCase() === 'true'
IsTrue(x) == ToLowerCase(JsString(x)) = Str("true")

BestsellerStatus(d) ==
    IF IsTrue(d.bestseller_status) THEN Str("Bestseller") ELSE Str("Not Bestseller")

MovieStatus(d) ==
    IF IsTrue(d.adapted_to_movie) THEN Str("Adapted To Movie")
    ELSE Str("Not Adapted To Movie")

\* an addNode without the has() test: nodeMap.set(name, { name, layer }) always
addNodeAlways(nodeMap, name, layer) ==
    IF \E i \in DOMAIN nodeMap : nodeMap[i].name = name
    THEN [i \in DOMAIN nodeMap |->
            IF nodeMap[i].name = name THEN [name |-> name, layer |-> layer] ELSE nodeMap[i]]
    ELSE Append(nodeMap, [name |-> name, layer |-> layer])

\* if (!nodeMap.has(name)) nodeMap.set(name, { name, layer })
addNode(nodeMap, name, layer) ==
    IF \E i \in DOMAIN nodeMap : nodeMap[i].name = name THEN nodeMap
    ELSE Append(nodeMap, [name |-> name, layer |-> layer])

\* `${source}|||${target}`
LinkKey(source, target) == JsString(source) \o <<Sep>> \o JsString(target)

\* linkMap.set(key, (linkMap.get(key) ?? 0) + 1)
addLink(linkMap, source, target) ==
    LET key == LinkKey(source, target)
    IN  IF \E i \in DOMAIN linkMap : linkMap[i].key = key
        THEN [i \in DOMAIN linkMap |->
                IF linkMap[i].key = key
                THEN [linkMap[i] EXCEPT !.value = @ + 1] ELSE linkMap[i]]
        ELSE Append(linkMap, [key |-> key, value |-> 1])

\* key.split('|||')
RECURSIVE Split(_)
Split(s) ==
    IF \A i \in DOMAIN s : s[i] # Sep THEN <<s>>
    ELSE LET k == CHOOSE i \in DOMAIN s :
                      s[i] = Sep /\ \A j \in 1..(i - 1) : s[j] # Sep
         IN  <<SubSeq(s, 1, k - 1)>> \o Split(SubSeq(s, k + 1, Len(s)))

\* const [source, target] = key.split('|||'); return { source, target, value }
MyLink(entry) ==
    LET parts == Split(entry.key)
    IN  [source |-> parts[1],
         target |-> IF Len(parts) >= 2 THEN parts[2] ELSE Undefined,
         value |-> entry.value]

\* the body of rawData.forEach(d => ...)
FlowRow(acc, topGenres, d) ==
    IF ~Includes(topGenres, GenreOf(d)) THEN acc
    ELSE LET genre == GenreOf(d)
             age == AgeOf(d)
             n1 == addNode(acc.nodeMap, genre, 0)
             n2 == addNode(n1, age, 1)
             n3 == addNode(n2, MovieStatus(d), 2)
             n4 == addNode(n3, BestsellerStatus(d), 3)
             l1 == addLink(acc.linkMap, genre, age)
             l2 == addLink(l1, age, MovieStatus(d))
             l3 == addLink(l2, MovieStatus(d), BestsellerStatus(d))
         IN  [nodeMap |-> n4, linkMap |-> l3]

\* rawData.forEach from row i on, one row after the other (the test on acc has
\* each row's maps computed before the next row is looked at)
RECURSIVE FlowFold(_, _, _, _)
FlowFold(rows, topGenres, i, acc) ==
    IF i > Len(rows) THEN acc
    ELSE LET next == FlowRow(acc, topGenres, rows[i])
         IN  IF Len(next.linkMap) >= Len(acc.linkMap)
             THEN FlowFold(rows, topGenres, i + 1, next)
             ELSE acc

\* the node and link maps after rawData.forEach
FlowReducer(rawData) ==
    FlowFold(rawData, TopGenres(rawData, SankeyTopN), 1,
             [nodeMap |-> << >>, linkMap |-> << >>])

\* Array.from(nodeMap.values())
FlowNodes(rawData) == FlowReducer(rawData).nodeMap

\* Array.from(linkMap.entries()).map(...)
FlowLinks(rawData) ==
    LET linkMap == FlowReducer(rawData).linkMap
    IN  [i \in DOMAIN linkMap |-> MyLink(linkMap[i])]

----------------------------------------------------------------------------
(* The charts, their svg elements and what a draw puts there *)

Bar == "StackedBarChart"

Heat == "GenreDecadeHeatmap"

Sankey == "SankeyChart"

Chart == {Bar, Heat, Sankey}

\* the charts whose onResize goes through useDebounceCallback(..., 200)
Debounced == {Bar, Heat}

\* the element each chart draws into: #bar-svg, #heatmap-svg, svgRef.current
SvgOf(c) == CASE c = Bar -> "bar-svg" [] c = Heat -> "heatmap-svg" [] c = Sankey -> "svgRef"

Svgs == {SvgOf(c) : c \in Chart}

NoSize == [width |-> 0, height |-> 0]

\* what the ResizeObserver can measure
Sizes == {[width |-> 400, height |-> 0], [width |-> 400, height |-> 300],
          [width |-> 800, height |-> 600]}

NoTimer == [armed |-> FALSE, args |-> NoSize]

\* pixel quantities are counted in 1/10000 px, so that a fraction such as 0.12
\* of a whole number of pixels is a whole number: n pixels
Px(n) == n * 10000

\* a fraction written in 1/10000 (0.12 is 1200) of n pixels, as in margin.left * w
Of(fraction, n) == fraction * n

\* a pixel quantity scaled by num/den, as in leftMargin * 0.6 or topMargin / 2
Scaled(x, num, den) == (x * num) \div den

\* the margins of the three components, as fractions of the container
BarMargin == [top |-> 2000, right |-> 400, bottom |-> 3000, left |-> 1200]

HeatMargin == [top |-> 2000, right |-> 400, bottom |-> 3200, left |-> 1400]

SankeyMargin == [top |-> 2000, right |-> 500, bottom |-> 500, left |-> 500]

\* a child of the svg: its tag, what it is, the size it was laid out for, the
\* pixel offsets and extents it was given, and the data bound to it
Mark(tag, role, sz, at, items) ==
    [tag |-> tag, role |-> role, width |-> sz.width, height |-> sz.height,
     at |-> at, items |-> items]

\* a draw that forgets to remove the earlier marks
RemoveNothing(d, svg) == d

\* svg.selectAll('*').remove() on one svg element
RemoveAll(d, svg) == [d EXCEPT ![svg] = << >>]

\* svg.append(...) for each of the marks, in order
AppendAll(d, svg, marks) == [d EXCEPT ![svg] = @ \o marks]

\* (d[key] as number) ?? 0, with obj[d.stack] = d.value written in the order of bars
StackValue(b, category, stack) ==
    LET hits == SelectSeq(b, LAMBDA x : x.category = category /\ x.stack = stack)
    IN  IF hits = << >> THEN 0 ELSE Last(hits).value

\* StackedBarChart.drawChart: what it appends to #bar-svg
BarMarks(b, sz) ==
    LET genres == KeysInOrder([i \in DOMAIN b |-> b[i].category])
        stacks == KeysInOrder([i \in DOMAIN b |-> b[i].stack])
        series == [i \in DOMAIN stacks |->
                     [j \in DOMAIN genres |->
                        <<genres[j], stacks[i], StackValue(b, genres[j], stacks[i])>>]]
        w == sz.width
        h == sz.height
        margin == BarMargin
        leftMargin == Of(margin.left, w)
        rightMargin == Of(margin.right, w)
        topMargin == Of(margin.top, h)
        bottomMargin == Of(margin.bottom, h)
        chartHeight == Px(h) - topMargin - bottomMargin
    IN  << Mark("rect", "background", sz,
                [x |-> 0, y |-> 0, width |-> Px(w), height |-> Px(h)], << >>),
           Mark("g", "bars", sz,
                [x0 |-> leftMargin, x1 |-> Px(w) - rightMargin,
                 y0 |-> chartHeight + topMargin, y1 |-> topMargin], series),
           Mark("g", "x-axis", sz,
                [tx |-> 0, ty |-> chartHeight + topMargin,
                 maxFont |-> Of(240, w), minFont |-> Of(80, w)], genres),
           Mark("g", "y-axis", sz, [tx |-> leftMargin, ty |-> 0], << >>),
           Mark("text", "title", sz,
                [x |-> Scaled(Px(w), 1, 2), y |-> Scaled(topMargin, 1, 2),
                 fontSize |-> Of(250, w)], << >>),
           Mark("text", "x-label", sz,
                [x |-> margin.left + Scaled(Px(w), 1, 2),
                 y |-> chartHeight + topMargin + Of(2500, h),
                 fontSize |-> Of(200, w)], << >>),
           Mark("text", "y-label", sz,
                [tx |-> Scaled(leftMargin, 6, 10),
                 ty |-> topMargin + Scaled(chartHeight, 1, 2),
                 fontSize |-> Of(200, w)], << >>),
           Mark("g", "legend", sz,
                [tx |-> leftMargin, ty |-> Scaled(topMargin, 7, 10),
                 step |-> Of(800, w), box |-> Of(150, w), textX |-> Of(200, w),
                 textY |-> Of(120, w), fontSize |-> Of(120, w)], stacks) >>

\* GenreDecadeHeatmap.drawChart: what it appends to #heatmap-svg
HeatMarks(h, sz) ==
    LET genres == {h[i].genre : i \in DOMAIN h}
        decades == {h[i].decade : i \in DOMAIN h}
        w == sz.width
        ht == sz.height
        margin == HeatMargin
        leftMargin == Of(margin.left, w)
        rightMargin == Of(margin.right, w)
        topMargin == Of(margin.top, ht)
        bottomMargin == Of(margin.bottom, ht)
        legendWidth == Of(3000, w)
        legendHeight == Of(150, ht)
        legendY == Px(ht) - bottomMargin + Of(2000, ht)
        boxSize == Of(180, w)
    IN  << Mark("rect", "background", sz, [width |-> Px(w), height |-> Px(ht)], << >>),
           Mark("g", "cells", sz,
                [x0 |-> leftMargin, x1 |-> Px(w) - rightMargin,
                 y0 |-> topMargin, y1 |-> Px(ht) - bottomMargin], h),
           Mark("g", "x-axis", sz, [tx |-> 0, ty |-> Px(ht) - bottomMargin], decades),
           Mark("g", "y-axis", sz, [tx |-> leftMargin, ty |-> 0], genres),
           Mark("text", "x-label", sz,
                [x |-> leftMargin + Scaled(Px(w) - leftMargin - rightMargin, 1, 2),
                 y |-> Px(ht) - bottomMargin + Scaled(bottomMargin, 5, 10),
                 fontSize |-> Of(180, w)], << >>),
           Mark("text", "y-label", sz,
                [tx |-> leftMargin - Scaled(leftMargin, 8, 10),
                 ty |-> topMargin + Scaled(Px(ht) - topMargin - bottomMargin, 1, 2),
                 fontSize |-> Of(180, w)], << >>),
           Mark("text", "title", sz,
                [x |-> Scaled(Px(w), 1, 2), y |-> Scaled(topMargin, 1, 2),
                 fontSize |-> Of(250, w)], << >>),
           Mark("g", "legend", sz,
                [tx |-> Scaled(Px(w), 1, 2) - legendWidth - Of(500, w),
                 ty |-> legendY + Of(400, ht),
                 width |-> legendWidth, height |-> legendHeight,
                 textY |-> 0 - Of(100, ht), fontSize |-> Of(130, w)], << >>),
           Mark("g", "outline-legend", sz,
                [tx |-> Scaled(Px(w), 1, 2) + Of(500, w), ty |-> legendY,
                 box |-> boxSize, strokeWidth |-> Of(60, w),
                 textX |-> boxSize + Of(100, w), textY |-> Scaled(boxSize, 8, 10),
                 fontSize |-> Of(130, w)], << >>) >>

\* SankeyChart's draw effect: what it appends to its svg (the group of links,
\* nodes and layer labels, then the title)
SankeyMarks(nodes, links, sz) ==
    LET margin == SankeyMargin
        widthInner == Of(Px(1) - margin.left - margin.right, sz.width)
        heightInner == Of(Px(1) - margin.top - margin.bottom, sz.height)
    IN  << Mark("g", "sankey", sz,
                [tx |-> Of(margin.left, sz.width), ty |-> Of(margin.top, sz.height),
                 x0 |-> 0, y0 |-> 0, x1 |-> widthInner, y1 |-> heightInner,
                 nodeWidth |-> Px(18), nodePadding |-> Px(14),
                 nodeFont |-> Of(100, sz.width),
                 layerLabelY |-> Px(-10), layerLabelFont |-> Of(180, sz.width)],
                <<nodes, links>>),
           Mark("text", "title", sz,
                [x |-> Scaled(Px(sz.width), 1, 2),
                 y |-> Scaled(Of(margin.top, sz.height), 1, 2),
                 fontSize |-> Of(250, sz.width)], << >>) >>

\* a size guard that returns only when both width and height are zero
BarReadyEitherSide(b, sz) == ~(b = << >>) /\ ~(sz.width = 0 /\ sz.height = 0)

\* StackedBarChart: the guards of the draw effect
BarReady(b, sz) == ~(b = << >>) /\ ~(sz.width = 0 \/ sz.height = 0)

\* GenreDecadeHeatmap: the guard of the draw effect
HeatReady(h, sz) == ~(h = << >> \/ sz.width = 0 \/ sz.height = 0)

\* SankeyChart: the guards of the draw effect
SankeyReady(nodes, links, sz) ==
    ~(Len(nodes) = 0 \/ Len(links) = 0) /\ ~(sz.width = 0 \/ sz.height = 0)

\* useEffect(..., [bars, size]) of StackedBarChart
BarEffect(d, b, sz) ==
    IF BarReady(b, sz) THEN AppendAll(RemoveAll(d, SvgOf(Bar)), SvgOf(Bar), BarMarks(b, sz))
    ELSE d

\* useEffect(..., [data, size]) of GenreDecadeHeatmap
HeatEffect(d, h, sz) ==
    IF HeatReady(h, sz)
    THEN AppendAll(RemoveAll(d, SvgOf(Heat)), SvgOf(Heat), HeatMarks(h, sz))
    ELSE d

\* useEffect(..., [nodeData, linkData, size]) of SankeyChart
SankeyEffect(d, nodes, links, sz) ==
    IF SankeyReady(nodes, links, sz)
    THEN AppendAll(RemoveAll(d, SvgOf(Sankey)), SvgOf(Sankey), SankeyMarks(nodes, links, sz))
    ELSE d

----------------------------------------------------------------------------
(* React *)

\* a state setter that also takes effect when its component is gone
SetStateAlways(m, old, new) == new

\* a state setter (setBars, setData, setNodeData, setLinkData, setSize) called
\* with new: React updates the state of a mounted component and drops the update
\* of an unmounted one
SetState(m, old, new) == IF m THEN new ELSE old

\* the effects of a component run after a render, and an unmounted component
\* does not render
RunEffect(m, d, drawn) == IF m THEN drawn ELSE d

----------------------------------------------------------------------------
(* The resize path *)

\* lodash's debounce behind useDebounceCallback: a call (re)starts the 200 ms
\* timer and replaces the arguments the pending call will be made with
DebounceCall(t, sz) == [armed |-> TRUE, args |-> sz]

\* history: a resize notification opens a window (200 ms from the last one) or
\* falls into the open one
Notified(b, sz) ==
    IF b.open THEN [b EXCEPT !.last = sz]
    ELSE [open |-> TRUE, pubs |-> 0, last |-> sz]

\* history: setSize was called for a notification of the window
Published(b) == [b EXCEPT !.pubs = @ + 1]

\* history: 200 ms have passed since the window's last notification
Closed(b) == [b EXCEPT !.open = FALSE]

NoBurst == [open |-> FALSE, pubs |-> 0, last |-> NoSize]

----------------------------------------------------------------------------
(* StackedBarChart *)

\* loadData, d3.csv resolving: reduce, setBars, and the draw effect that follows
StackedBarLoadData ==
    /\ fetch[Bar] = "inflight"
    /\ LET barsData == BarReducer(ParseCsv(csv))
           next == SetState(mounted, bars, barsData)
       IN  /\ bars' = next
           /\ dom' = RunEffect(mounted, dom, BarEffect(dom, next, size[Bar]))
    /\ fetch' = [fetch EXCEPT ![Bar] = "ok"]
    /\ UNCHANGED <<mounted, csv, data, nodeData, linkData, size, timer, console, unhandled, burst>>

\* loadData, d3.csv rejecting: catch (error) { console.error(...) }
StackedBarLoadError ==
    /\ fetch[Bar] = "inflight"
    /\ fetch' = [fetch EXCEPT ![Bar] = "failed"]
    /\ console' = console \cup {Bar}
    /\ UNCHANGED <<mounted, csv, bars, data, nodeData, linkData, size, timer, dom, unhandled, burst>>

\* the ResizeObserver notifying the debounced onResize
StackedBarOnResize ==
    \E sz \in Sizes :
        /\ mounted
        /\ timer' = [timer EXCEPT ![Bar] = DebounceCall(@, sz)]
        /\ burst' = [burst EXCEPT ![Bar] = Notified(@, sz)]
        /\ UNCHANGED <<mounted, csv, fetch, bars, data, nodeData, linkData, size, dom, console,
                       unhandled>>

\* the debounce timer expiring: setSize(size), and the draw effect that follows
StackedBarSetSize ==
    /\ timer[Bar].armed
    /\ LET sz == SetState(mounted, size[Bar], timer[Bar].args)
       IN  /\ size' = [size EXCEPT ![Bar] = sz]
           /\ dom' = RunEffect(mounted, dom, BarEffect(dom, bars, sz))
           /\ burst' = [burst EXCEPT ![Bar] = Closed(IF mounted THEN Published(@) ELSE @)]
    /\ timer' = [timer EXCEPT ![Bar] = NoTimer]
    /\ UNCHANGED <<mounted, csv, fetch, bars, data, nodeData, linkData, console, unhandled>>

----------------------------------------------------------------------------
(* GenreDecadeHeatmap *)

\* loadData, d3.csv resolving: reduce, setData, and the draw effect that follows
HeatmapLoadData ==
    /\ fetch[Heat] = "inflight"
    /\ LET heatmapData == HeatmapReducer(ParseCsv(csv))
           next == SetState(mounted, data, heatmapData)
       IN  /\ data' = next
           /\ dom' = RunEffect(mounted, dom, HeatEffect(dom, next, size[Heat]))
    /\ fetch' = [fetch EXCEPT ![Heat] = "ok"]
    /\ UNCHANGED <<mounted, csv, bars, nodeData, linkData, size, timer, console, unhandled, burst>>

\* loadData, d3.csv rejecting: catch (error) { console.error(...) }
HeatmapLoadError ==
    /\ fetch[Heat] = "inflight"
    /\ fetch' = [fetch EXCEPT ![Heat] = "failed"]
    /\ console' = console \cup {Heat}
    /\ UNCHANGED <<mounted, csv, bars, data, nodeData, linkData, size, timer, dom, unhandled, burst>>

\* the ResizeObserver notifying the debounced onResize
HeatmapOnResize ==
    \E sz \in Sizes :
        /\ mounted
        /\ timer' = [timer EXCEPT ![Heat] = DebounceCall(@, sz)]
        /\ burst' = [burst EXCEPT ![Heat] = Notified(@, sz)]
        /\ UNCHANGED <<mounted, csv, fetch, bars, data, nodeData, linkData, size, dom, console,
                       unhandled>>

\* the debounce timer expiring: setSize(size), and the draw effect that follows
HeatmapSetSize ==
    /\ timer[Heat].armed
    /\ LET sz == SetState(mounted, size[Heat], timer[Heat].args)
       IN  /\ size' = [size EXCEPT ![Heat] = sz]
           /\ dom' = RunEffect(mounted, dom, HeatEffect(dom, data, sz))
           /\ burst' = [burst EXCEPT ![Heat] = Closed(IF mounted THEN Published(@) ELSE @)]
    /\ timer' = [timer EXCEPT ![Heat] = NoTimer]
    /\ UNCHANGED <<mounted, csv, fetch, bars, data, nodeData, linkData, console, unhandled>>

----------------------------------------------------------------------------
(* SankeyChart *)

\* loadData, d3.csv resolving: the early return on no rows, else reduce,
\* setNodeData, setLinkData, and the draw effect that follows
SankeyLoadData ==
    /\ fetch[Sankey] = "inflight"
    /\ LET rawData == ParseCsv(csv)
           nodes == IF Len(rawData) = 0 THEN nodeData
                    ELSE SetState(mounted, nodeData, FlowNodes(rawData))
           links == IF Len(rawData) = 0 THEN linkData
                    ELSE SetState(mounted, linkData, FlowLinks(rawData))
       IN  /\ nodeData' = nodes
           /\ linkData' = links
           /\ dom' = RunEffect(mounted, dom, SankeyEffect(dom, nodes, links, size[Sankey]))
    /\ fetch' = [fetch EXCEPT ![Sankey] = "ok"]
    /\ UNCHANGED <<mounted, csv, bars, data, size, timer, console, unhandled, burst>>

\* loadData, d3.csv rejecting: the await throws inside loadData, which has no
\* try/catch, and loadData() is called without a .catch
SankeyLoadError ==
    /\ fetch[Sankey] = "inflight"
    /\ fetch' = [fetch EXCEPT ![Sankey] = "failed"]
    /\ unhandled' = unhandled \cup {Sankey}
    /\ UNCHANGED <<mounted, csv, bars, data, nodeData, linkData, size, timer, dom, console, burst>>

\* the ResizeObserver callback: setSize(entry.contentRect) at once, and the draw
\* effect that follows
SankeyResize ==
    \E sz \in Sizes :
        /\ mounted
        /\ burst[Sankey].open => burst[Sankey].pubs < MaxBurst
        /\ size' = [size EXCEPT ![Sankey] = SetState(mounted, size[Sankey], sz)]
        /\ dom' = RunEffect(mounted, dom, SankeyEffect(dom, nodeData, linkData, sz))
        /\ burst' = [burst EXCEPT ![Sankey] = Published(Notified(@, sz))]
        /\ UNCHANGED <<mounted, csv, fetch, bars, data, nodeData, linkData, timer, console, unhandled>>

\* 200 ms pass without a resize of the Sankey container (nothing of the chart runs)
SankeyQuiet ==
    /\ burst[Sankey].open
    /\ burst' = [burst EXCEPT ![Sankey] = Closed(@)]
    /\ UNCHANGED <<mounted, csv, fetch, bars, data, nodeData, linkData, size, timer, dom, console,
                   unhandled>>

----------------------------------------------------------------------------
(* Layout *)

\* Layout is unmounted and the three charts with it: the cleanups run (each
\* ResizeObserver is disconnected), the component states are frozen and the svg
\* elements leave the document with the marks they hold.  Nothing is cancelled:
\* a fetch in flight still completes, and a pending debounced call either still
\* fires or never does.
Unmount ==
    /\ mounted
    /\ mounted' = FALSE
    /\ UNCHANGED <<csv, fetch, bars, data, nodeData, linkData, size, timer, dom, console,
                   unhandled, burst>>

----------------------------------------------------------------------------
(* Inputs *)

Row(genre, age, year, bestseller, movie) ==
    [genre |-> genre, age_category |-> age, publicationYear |-> year,
     bestseller_status |-> bestseller, adapted_to_movie |-> movie]

Y1994 == <<"1", "9", "9", "4">>

Y1996 == <<"1", "9", "9", "6">>

\* the sequences over kinds of length at most n
RECURSIVE SeqsUpTo(_, _)
SeqsUpTo(kinds, n) ==
    IF n = 0 THEN {<< >>}
    ELSE LET shorter == SeqsUpTo(kinds, n - 1)
         IN  shorter \cup {Append(s, k) : s \in shorter, k \in kinds}

\* the page's CSV in the runs that follow the charts' life: no record, or two
LifeInputs ==
    {[cols |-> Columns, rows |-> rows] :
        rows \in {<< >>,
                  <<Row(Str("Fiction"), Str("Adult"), Y1994, Str("True"), Str("False")),
                    Row(Str("Romance"), Str("Teen"), Y1996, Str("False"), Str("False"))>>}}

\* the state right after the three charts mounted
Mounted(file) ==
    /\ csv = file
    /\ fetch = [c \in Chart |-> "inflight"]
    /\ bars = << >>
    /\ data = << >>
    /\ nodeData = << >>
    /\ linkData = << >>
    /\ size = [c \in Chart |-> NoSize]
    /\ timer = [c \in Debounced |-> NoTimer]
    /\ dom = [s \in Svgs |-> << >>]
    /\ console = {}
    /\ unhandled = {}
    /\ burst = [c \in Chart |-> NoBurst]
    /\ mounted = TRUE

Init == \E file \in LifeInputs : Mounted(file)

Next ==
    \/ StackedBarLoadData
    \/ StackedBarLoadError
    \/ StackedBarOnResize
    \/ StackedBarSetSize
    \/ HeatmapLoadData
    \/ HeatmapLoadError
    \/ HeatmapOnResize
    \/ HeatmapSetSize
    \/ SankeyLoadData
    \/ SankeyLoadError
    \/ SankeyResize
    \/ SankeyQuiet

\* the charts' life while Layout stays mounted
Spec == Init /\ [][Next]_vars

\* the two charts of Example.tsx, one debounced and one not (GenreDecadeHeatmap
\* loads and resizes as StackedBarChart does, and no chart shares state with
\* another), and Layout going away
NextUnmount ==
    \/ StackedBarLoadData
    \/ StackedBarLoadError
    \/ StackedBarOnResize
    \/ StackedBarSetSize
    \/ SankeyLoadData
    \/ SankeyLoadError
    \/ SankeyResize
    \/ SankeyQuiet
    \/ Unmount

\* the charts' life with Layout unmounted at any moment
SpecUnmount == Init /\ [][NextUnmount]_vars

----------------------------------------------------------------------------
(* The reducers on their own: the chart mounts with some CSV and loadData runs *)

Fiction == Str("Fiction")

Adult == Str("Adult")

Teen == Str("Teen")

\* the worked example of the bar reducer
ExampleRows ==
    << Row(Fiction, Adult, Y1994, Str("True"), Str("False")),
       Row(Fiction, Adult, Y1994, Str("True"), Str("False")),
       Row(Fiction, Teen, Y1994, Str("True"), Str("False")) >>

BarRowKinds ==
    {Row(g, a, Y1994, Str("True"), Str("False")) :
        g \in {Fiction, Str("Romance"), << >>}, a \in {Adult, Teen, << >>}}

\* any records of those kinds, under a header with or without the two columns
BarInputs ==
    {[cols |-> Columns \ missing, rows |-> rows] :
        missing \in SUBSET {"genre", "age_category"},
        rows \in SeqsUpTo(BarRowKinds, MaxBarRows)}

InitBar == \E file \in BarInputs : Mounted(file)

NextBar == StackedBarLoadData

SpecBar == InitBar /\ [][NextBar]_vars

GenreNames ==
    << "g01", "g02", "g03", "g04", "g05", "g06", "g07", "g08", "g09", "g10", "g11",
       "g12", "g13", "g14", "g15", "g16", "g17", "g18", "g19", "g20", "g21", "g22" >>

Genre(i) == Str(GenreNames[i])

\* one record for each of the first k genres
OneOfEach(k) == [i \in 1..k |-> Row(Genre(i), Adult, Y1994, Str("False"), Str("False"))]

HeatRowKinds ==
    { Row(Genre(1), Adult, Y1996, Str("False"), Str("False")),
      Row(Genre(1), Adult, << >>, Str("False"), Str("False")),
      Row(Genre(21), Adult, Y1996, Str("False"), Str("False")),
      Row(Genre(21), Adult, <<"-", "5">>, Str("False"), Str("False")),
      Row(Genre(22), Adult, <<"2", "0", "0", "3">>, Str("False"), Str("False")),
      Row(Genre(22), Adult, <<"n", "/", "a">>, Str("False"), Str("False")),
      Row(Other, Adult, Y1994, Str("False"), Str("False")) }

\* no record, or one of each of 19 to 21 genres with a few more before or behind them
HeatInputs ==
    {[cols |-> Columns, rows |-> << >>]} \cup
    {[cols |-> Columns,
      rows |-> IF front THEN extra \o OneOfEach(k) ELSE OneOfEach(k) \o extra] :
        k \in (HeatmapTopN - 1)..(HeatmapTopN + 1),
        extra \in SeqsUpTo(HeatRowKinds, MaxHeatExtra),
        front \in BOOLEAN}

InitHeat == \E file \in HeatInputs : Mounted(file)

NextHeat == HeatmapLoadData

SpecHeat == InitHeat /\ [][NextHeat]_vars

FlowRowKinds ==
    { Row(Genre(1), Adult, Y1994, Str("True"), Str("TRUE")),
      Row(Genre(1), Teen, Y1994, << >>, Str("false")),
      Row(Genre(11), Teen, Y1994, Str("true"), Str("no")),
      Row(Genre(12), Adult, Y1994, Str("true"), Str("False")),
      Row(Genre(1), Genre(2), Y1994, Str("False"), Str("False")),
      Row(Adult, Teen, Y1994, Str("False"), Str("False")),
      Row(<<"g01", Sep, "Teen">>, Adult, Y1994, Str("False"), Str("False")) }

\* no record, or one of each of 9 to 11 genres with a few more before or behind them
FlowInputs ==
    {[cols |-> Columns, rows |-> << >>]} \cup
    {[cols |-> Columns,
      rows |-> IF front THEN extra \o OneOfEach(k) ELSE OneOfEach(k) \o extra] :
        k \in (SankeyTopN - 1)..(SankeyTopN + 1),
        extra \in SeqsUpTo(FlowRowKinds, MaxFlowExtra),
        front \in BOOLEAN}

InitFlow == \E file \in FlowInputs : Mounted(file)

NextFlow == SankeyLoadData

SpecFlow == InitFlow /\ [][NextFlow]_vars

----------------------------------------------------------------------------
(* The bar reducer's claims, under SpecBar *)

\* the (genre, age-category) pair of a row as d3.csv delivers it
PairOf(d) == <<d.genre, d.age_category>>

RawPairs(rawData) == {PairOf(rawData[i]) : i \in DOMAIN rawData}

RowsWithPair(rawData, p) == {i \in DOMAIN rawData : PairOf(rawData[i]) = p}

\* a pair both of whose fields are there and not empty
Labelled(p) == \A k \in 1..2 : p[k] # Undefined /\ p[k] # << >>

\* C3: the bar reducer emits exactly one datum per distinct (genre, age-category)
\* pair of the input, whose value is the number of rows with that pair: as many
\* datums as pairs, for each count as many datums as pairs with that count, for
\* each pair with both labels exactly one datum carrying them and its count; so
\* the values sum to the number of rows, no rows give no datums, and the worked
\* example gives (Fiction, Adult, 2) and (Fiction, Teen, 1).
C3_OneDatumPerPair ==
    fetch[Bar] = "ok" =>
        LET rawData == ParseCsv(csv)
            pairs == RawPairs(rawData)
        IN  /\ Len(bars) = Cardinality(pairs)
            /\ \A n \in 0..Len(rawData) :
                  Cardinality({i \in DOMAIN bars : bars[i].value = n})
                    = Cardinality({p \in pairs : Cardinality(RowsWithPair(rawData, p)) = n})
            /\ \A p \in pairs :
                  Labelled(p) =>
                     /\ Cardinality({i \in DOMAIN bars :
                           bars[i].category = p[1] /\ bars[i].stack = p[2]}) = 1
                     /\ \A i \in DOMAIN bars :
                           bars[i].category = p[1] /\ bars[i].stack = p[2]
                             => bars[i].value = Cardinality(RowsWithPair(rawData, p))
            /\ SumSeq([i \in DOMAIN bars |-> bars[i].value]) = Len(rawData)
            /\ (rawData = << >> => bars = << >>)
            /\ (csv.cols = Columns /\ csv.rows = ExampleRows =>
                  /\ Len(bars) = 2
                  /\ Range(bars) = {[category |-> Fiction, stack |-> Adult, value |-> 2],
                                    [category |-> Fiction, stack |-> Teen, value |-> 1]})

\* C3's case: the worked example has been reduced
C3_Witness ==
    /\ fetch[Bar] = "ok"
    /\ csv.cols = Columns
    /\ csv.rows = ExampleRows
    /\ Len(bars) = 2

\* a row's genre or age category is missing: the field is absent or empty
Missing(x) == x = Undefined \/ x = << >>

\* C4: every row whose genre is missing (absent or empty) is counted under
\* category "Unknown", every row whose age category is missing under stack
\* "Unknown", and no datum has an empty or undefined category or stack.
C4_MissingIsUnknown ==
    fetch[Bar] = "ok" =>
        LET rawData == ParseCsv(csv)
            under(field) == SelectSeq(bars, LAMBDA b : b[field] = Unknown)
        IN  /\ \A i \in DOMAIN bars :
                  ~Missing(bars[i].category) /\ ~Missing(bars[i].stack)
            /\ SumSeq([i \in DOMAIN under("category") |-> under("category")[i].value])
                 = Cardinality({i \in DOMAIN rawData : Missing(rawData[i].genre)})
            /\ SumSeq([i \in DOMAIN under("stack") |-> under("stack")[i].value])
                 = Cardinality({i \in DOMAIN rawData : Missing(rawData[i].age_category)})

\* C4 where it holds: a row whose field is absent is counted under "Unknown"
C4_AbsentIsUnknown ==
    fetch[Bar] = "ok" =>
        LET rawData == ParseCsv(csv)
        IN  /\ \A i \in DOMAIN bars :
                  bars[i].category # Undefined /\ bars[i].stack # Undefined
            /\ "genre" \notin csv.cols => \A i \in DOMAIN bars : bars[i].category = Unknown
            /\ "age_category" \notin csv.cols => \A i \in DOMAIN bars : bars[i].stack = Unknown

----------------------------------------------------------------------------
(* The heatmap reducer's claims, under SpecHeat *)

GenresIn(rawData) == {rawData[i].genre : i \in DOMAIN rawData}

Frequency(rawData, g) == Cardinality({i \in DOMAIN rawData : rawData[i].genre = g})

Min(a, b) == IF a < b THEN a ELSE b

\* T is a set of the n most frequent genres: n of them (all, when there are
\* fewer), none less frequent than a genre left out
IsTop(T, rawData, n) ==
    /\ T \subseteq GenresIn(rawData)
    /\ Cardinality(T) = Min(n, Cardinality(GenresIn(rawData)))
    /\ \A g \in T : \A h \in GenresIn(rawData) \ T :
          Frequency(rawData, g) >= Frequency(rawData, h)

HeatLabels == {data[i].genre : i \in DOMAIN data}

\* C5: the genre labels of the heatmap reducer's output are exactly a set of the
\* 20 most frequent genres of the input, plus "Other" if and only if some row's
\* genre is outside that set; there are never more than 21 labels.
C5_TopTwentyPlusOther ==
    fetch[Heat] = "ok" =>
        LET rawData == ParseCsv(csv)
        IN  /\ \E T \in {HeatLabels, HeatLabels \ {Other}} :
                  /\ IsTop(T, rawData, HeatmapTopN)
                  /\ HeatLabels =
                        T \cup (IF GenresIn(rawData) \subseteq T THEN {} ELSE {Other})
            /\ Cardinality(HeatLabels) <= HeatmapTopN + 1

\* C5's case: more than 20 genres, of different frequencies, so that some rows
\* fall under "Other"
C5_Witness ==
    /\ fetch[Heat] = "ok"
    /\ Cardinality(GenresIn(csv.rows)) > HeatmapTopN
    /\ Other \in HeatLabels
    /\ Other \notin GenresIn(csv.rows)
    /\ Cardinality(HeatLabels) = HeatmapTopN + 1
    /\ \E g \in GenresIn(csv.rows) : Frequency(csv.rows, g) > 1

\* the rows whose publicationYear is a number
NumericRows(rawData) ==
    {i \in DOMAIN rawData : ~ToNumber(rawData[i].publicationYear).nan}

\* C6: every row with a numeric publicationYear y is counted in the datum of
\* decade floor(y / 10) * 10, rows with a non-numeric year are excluded: every
\* datum's decade is an integer multiple of ten and no datum counts a row with a
\* non-numeric year.
C6_DecadesOfNumericYears ==
    fetch[Heat] = "ok" =>
        LET rawData == ParseCsv(csv)
        IN  /\ \A i \in DOMAIN data : ~data[i].decade.nan /\ data[i].decade.v % 10 = 0
            /\ SumSeq([i \in DOMAIN data |-> data[i].count])
                 = Cardinality(NumericRows(rawData))

\* C6 where it holds: the datums of a numeric decade have a multiple of ten
\* for decade and count the rows with a numeric year, all of them
C6_NumericYearsByDecade ==
    fetch[Heat] = "ok" =>
        LET numeric == SelectSeq(data, LAMBDA h : ~h.decade.nan)
        IN  /\ \A i \in DOMAIN numeric : numeric[i].decade.v % 10 = 0
            /\ SumSeq([i \in DOMAIN numeric |-> numeric[i].count])
                 = Cardinality(NumericRows(ParseCsv(csv)))

----------------------------------------------------------------------------
(* The flow reducer's claims, under SpecFlow *)

\* the rows the flow reducer keeps: those of a top-10 genre
Surviving(rawData) ==
    {i \in DOMAIN rawData : rawData[i].genre \in Range(TopGenres(rawData, SankeyTopN))}

\* the label a row has in layer k: genre, age category, movie status, bestseller status
LabelIn(d, k) ==
    CASE k = 0 -> d.genre
      [] k = 1 -> d.age_category
      [] k = 2 -> MovieStatus(d)
      [] k = 3 -> BestsellerStatus(d)

\* the transitions a row produces: layer k to layer k + 1
Transitions(d) == {<<LabelIn(d, k), LabelIn(d, k + 1)>> : k \in 0..2}

\* C7: rows outside the top-10 genres contribute no node and no link; every
\* link's weight is the number of surviving rows that produce its (source,
\* target) transition; no two links share a (source, target) pair.
C7_LinkWeights ==
    fetch[Sankey] = "ok" =>
        LET rawData == ParseCsv(csv)
            kept == Surviving(rawData)
        IN  /\ \A i \in DOMAIN nodeData :
                  \E r \in kept, k \in 0..3 : nodeData[i].name = LabelIn(rawData[r], k)
            /\ \A i \in DOMAIN linkData :
                  linkData[i].value =
                     Cardinality({r \in kept :
                        <<linkData[i].source, linkData[i].target>> \in Transitions(rawData[r])})
            /\ \A i, j \in DOMAIN linkData :
                  linkData[i].source = linkData[j].source
                    /\ linkData[i].target = linkData[j].target => i = j

\* the rows all of whose labels are free of the separator and no two of whose
\* transitions coincide
PlainRow(d) ==
    /\ \A k \in 0..3 : Sep \notin Range(LabelIn(d, k))
    /\ Cardinality(Transitions(d)) = 3

\* C7 where it holds: on rows without "|||" in a label
C7_LinkWeightsOfPlainRows ==
    (\A i \in DOMAIN csv.rows : PlainRow(csv.rows[i])) => C7_LinkWeights

\* C8 as stated: every node has exactly one layer in 0..3, no name is in two
\* layers, and each node's layer is the layer of the field that produced it, also
\* when the same label occurs as a genre and as an age category.
C8_LayerOfEveryField ==
    fetch[Sankey] = "ok" =>
        LET rawData == ParseCsv(csv)
        IN  /\ \A i \in DOMAIN nodeData : nodeData[i].layer \in 0..3
            /\ \A i, j \in DOMAIN nodeData : nodeData[i].name = nodeData[j].name => i = j
            /\ \A r \in Surviving(rawData), k \in 0..3 :
                  \E i \in DOMAIN nodeData :
                     nodeData[i].name = LabelIn(rawData[r], k) /\ nodeData[i].layer = k

\* where a label occurs among the rows kept: <<row, layer>>
Occurrences(rawData, kept, name) ==
    {o \in kept \X (0..3) : LabelIn(rawData[o[1]], o[2]) = name}

\* the first of them: the earliest row, and in it the lowest layer
First(occurrences) ==
    CHOOSE o \in occurrences :
        \A q \in occurrences : o[1] < q[1] \/ (o[1] = q[1] /\ o[2] <= q[2])

\* C8 as amended: every node has exactly one layer in 0..3, no name is in two
\* layers, every label of a surviving row is a node, and each node's layer is the
\* layer of the field in which its label occurs first (earliest row; within a row
\* genre, then age category, then movie status, then bestseller status).
C8_LayerOfFirstField ==
    fetch[Sankey] = "ok" =>
        LET rawData == ParseCsv(csv)
            kept == Surviving(rawData)
        IN  /\ \A i \in DOMAIN nodeData : nodeData[i].layer \in 0..3
            /\ \A i, j \in DOMAIN nodeData : nodeData[i].name = nodeData[j].name => i = j
            /\ \A r \in kept, k \in 0..3 :
                  \E i \in DOMAIN nodeData : nodeData[i].name = LabelIn(rawData[r], k)
            /\ \A i \in DOMAIN nodeData :
                  LET occurrences == Occurrences(rawData, kept, nodeData[i].name)
                  IN  occurrences # {} /\ nodeData[i].layer = First(occurrences)[2]

\* C8's case: a label occurs as an age category first and as a genre later
C8_Witness ==
    /\ fetch[Sankey] = "ok"
    /\ \E i \in DOMAIN nodeData :
          /\ nodeData[i].layer = 1
          /\ \E o \in Occurrences(csv.rows, Surviving(csv.rows), nodeData[i].name) :
                o[2] = 0

----------------------------------------------------------------------------
(* The charts' life, under Spec *)

\* the chart's aggregated data is not empty
HasData(c) ==
    CASE c = Bar -> bars # << >>
      [] c = Heat -> data # << >>
      [] c = Sankey -> nodeData # << >> /\ linkData # << >>

\* the chart's viewport has a width and a height
Measured(c) == size[c].width # 0 /\ size[c].height # 0

\* what a complete draw of the chart's current data at size sz leaves in its svg
Drawing(c, sz) ==
    CASE c = Bar -> BarMarks(bars, sz)
      [] c = Heat -> HeatMarks(data, sz)
      [] c = Sankey -> SankeyMarks(nodeData, linkData, sz)

\* a step that changes what the chart's svg shows
Redrawn(c) == dom'[SvgOf(c)] # dom[SvgOf(c)]

\* C1: a chart draws only in a state where its aggregated data is not empty and
\* its viewport's width and height are both not zero; until such a state is
\* reached its svg is empty (it starts empty and every step that changes it ends
\* in such a state), and nothing it holds was laid out for a zero width or height.
C1_DrawOnlyWhenReady ==
    /\ \A c \in Chart : dom[SvgOf(c)] = << >>
    /\ [][\A c \in Chart :
            /\ Redrawn(c) => HasData(c)' /\ Measured(c)'
            /\ \A i \in DOMAIN dom'[SvgOf(c)] :
                  dom'[SvgOf(c)][i].width # 0 /\ dom'[SvgOf(c)][i].height # 0]_vars

\* C1's case: one chart has drawn, one is measured but still without data, one
\* has data but a viewport without height, and the latter two show nothing
C1_Witness ==
    /\ dom[SvgOf(Bar)] # << >>
    /\ Measured(Heat) /\ ~HasData(Heat) /\ dom[SvgOf(Heat)] = << >>
    /\ HasData(Sankey) /\ size[Sankey].width # 0 /\ size[Sankey].height = 0
    /\ dom[SvgOf(Sankey)] = << >>

\* C2: of the resize notifications that arrive within one debounce window exactly
\* one size update is published, with the most recent measurement: never more
\* than one per window, none while the window is open, and once it has closed
\* the published size is the last one measured.
C2_OneUpdatePerWindow ==
    \A c \in Chart :
        /\ burst[c].pubs <= 1
        /\ burst[c].open => burst[c].pubs = 0
        /\ ~burst[c].open /\ burst[c] # NoBurst =>
              burst[c].pubs = 1 /\ size[c] = burst[c].last

\* C2 where it holds: the two charts whose onResize is debounced, while mounted
C2_OneUpdatePerWindowDebounced ==
    mounted => \A c \in Debounced :
        /\ burst[c].pubs <= 1
        /\ burst[c].open => burst[c].pubs = 0 /\ timer[c].armed /\ timer[c].args = burst[c].last
        /\ ~burst[c].open /\ burst[c] # NoBurst =>
              burst[c].pubs = 1 /\ size[c] = burst[c].last /\ ~timer[c].armed

\* C9: when a chart's CSV load fails, the chart catches and logs the error, its
\* data stays empty, no second load is issued, and it never draws.
C9_LoadErrorCaught ==
    \A c \in Chart :
        fetch[c] = "failed" =>
            /\ c \in console
            /\ c \notin unhandled
            /\ ~HasData(c)
            /\ dom[SvgOf(c)] = << >>

\* C9 where it holds: a chart whose load failed has no data and never draws
C9_LoadErrorLeavesEmpty ==
    \A c \in Chart : fetch[c] = "failed" => ~HasData(c) /\ dom[SvgOf(c)] = << >>

\* the size the marks in the chart's svg were laid out for
DrawnAt(c) ==
    [width |-> dom[SvgOf(c)][1].width, height |-> dom[SvgOf(c)][1].height]

\* C10: every draw destroys the chart's earlier marks and rebuilds the whole
\* visual: each chart's svg is empty or holds exactly the marks of one complete
\* draw of the chart's data, and when the chart has data and a measured viewport
\* they are the marks of the draw from that data at that size.
C10_ExactlyTheLatestDraw ==
    \A c \in Chart :
        /\ dom[SvgOf(c)] # << >> => dom[SvgOf(c)] = Drawing(c, DrawnAt(c))
        /\ HasData(c) /\ Measured(c) => dom[SvgOf(c)] = Drawing(c, size[c])

\* C10's case: every chart has drawn, two of them at different sizes, and the
\* third shows the marks of a draw older than the size it now has
C10_Witness ==
    /\ \A c \in Chart : dom[SvgOf(c)] # << >>
    /\ Measured(Heat) /\ Measured(Sankey) /\ size[Heat] # size[Sankey]
    /\ size[Bar].height = 0

----------------------------------------------------------------------------
(* Unmounting, under SpecUnmount *)

\* the chart's component state
StateOf(c) ==
    CASE c = Bar -> <<bars, size[c]>>
      [] c = Heat -> <<data, size[c]>>
      [] c = Sankey -> <<nodeData, linkData, size[c]>>

\* C11: once the charts are unmounted no size update is published and no data
\* update takes effect: every later step (a fetch that completes, a pending
\* debounced call that fires) leaves each chart's data and size as they were
\* and draws nothing, and no resize notification is taken any more.
C11_NothingAfterUnmount ==
    [][~mounted =>
          /\ \A c \in Chart : StateOf(c)' = StateOf(c) /\ ~Redrawn(c)
          /\ \A c \in Chart : burst'[c].pubs = burst[c].pubs
          /\ \A c \in Debounced : timer'[c].armed => timer[c] = timer'[c]]_vars

\* C11's case: the charts are unmounted; the bar chart's fetch of a CSV with
\* records completed after that and left no data, its debounced call was pending
\* at unmount, has fired since and its measurement never became the size; the
\* Sankey chart had drawn before and its marks are as they were
C11_Witness ==
    /\ ~mounted
    /\ fetch[Bar] = "ok" /\ csv.rows # << >> /\ bars = << >>
    /\ burst[Bar] # NoBurst /\ ~burst[Bar].open /\ burst[Bar].pubs = 0
    /\ ~timer[Bar].armed /\ size[Bar] # burst[Bar].last
    /\ Measured(Bar)
    /\ fetch[Sankey] = "ok" /\ nodeData # << >> /\ Measured(Sankey)
    /\ dom[SvgOf(Sankey)] # << >> /\ dom[SvgOf(Bar)] = << >>

----------------------------------------------------------------------------
(* Proportional layout, under Spec *)

\* the container at twice the size
Double(sz) == [width |-> 2 * sz.width, height |-> 2 * sz.height]

\* every pixel offset and extent of a mark, doubled
Twice(at) == [k \in DOMAIN at |-> 2 * at[k]]

\* the marks in the chart's svg are those of a draw of the same data at twice
\* the size with every pixel offset and extent halved
ProportionalDraw(c) ==
    LET drawn == dom[SvgOf(c)]
        again == Drawing(c, Double(DrawnAt(c)))
    IN  \A i \in DOMAIN drawn : again[i].at = Twice(drawn[i].at)

\* C12: every pixel offset and extent a draw derives is proportional to the
\* container's size: for each chart that has drawn, drawing the same data at
\* twice the width and height gives every mark exactly twice each offset and extent.
C12_ProportionalLayout ==
    \A c \in Chart : dom[SvgOf(c)] # << >> => ProportionalDraw(c)

\* C12 where it holds: the heatmap
C12_HeatmapProportional ==
    dom[SvgOf(Heat)] # << >> => ProportionalDraw(Heat)

\* C12 fails on each of the other two charts
C12_BarOrSankeyProportional ==
    \A c \in {Bar, Sankey} : dom[SvgOf(c)] # << >> => ~ProportionalDraw(c)

====
